---- MODULE Spec2Model ----
(***************************************************************************)
(* A model of SkSVGDevice (src/src/svg/SkSVGDevice.cpp): the device that   *)
(* turns draw calls into calls on an SkXMLWriter.                          *)
(*                                                                         *)
(* The writer is recorded the way a mock writer records it: `stack` is the *)
(* writer's stack of open elements, `log` the writer calls made by the     *)
(* device call that ran last (cleared when the caller goes on).  Every     *)
(* device entry point is one action that runs the whole handler.           *)
(***************************************************************************)
EXTENDS Integers, Sequences, FiniteSets, TLC

VARIABLES
    dev,      \* "none" | "null" | "live" | "destroyed" | "crashed"
    stack,    \* the writer's open elements, outermost first
    log,      \* the writer calls of the device call that ran last
    bucket,   \* ResourceBucket: the six id counters
    pre,      \* bucket as it was when the device call that ran last began
    call,     \* the device call that ran last and its arguments
    ncalls,   \* the draw calls made on the device so far
    cs,       \* the device's clip stack: the clip of each save level, innermost last
    tb        \* an SVGTextBuilder under construction (specification SpecText)

vars == <<dev, stack, log, bucket, pre, call, ncalls, cs, tb>>

(***************************************************************************)
(* Bounds of the model.                                                    *)
(***************************************************************************)
MaxCalls == 2      \* draw calls made on one device
MaxPts == 4        \* drawPoints: point counts 0..MaxPts
MaxOOB == 1        \* out-of-bounds loop rounds that read garbage before the fault
MaxLen == 4        \* text builder: source characters per text

\* size_t is 64 bits wide in the build; TLC's integers carry 31, so the model
\* keeps 30 of them.  0 - 1 wraps to the largest value either way.
SizeBits == 30
SizeMod == 2 ^ SizeBits

SK_AlphaOPAQUE == 255

(***************************************************************************)
(* Attribute values.  One record shape for all of them: k is the kind of   *)
(* value, s and n its text and number, p a sequence of numbers.            *)
(***************************************************************************)
Val(k, s, n, p) == [k |-> k, s |-> s, n |-> n, p |-> p]
Str(s)     == Val("str", s, 0, <<>>)          \* a literal string
Num(n)     == Val("num", "", n, <<>>)         \* a number (%d or scalar)
Empty      == Str("")                         \* an empty SkString
IdOf(c, n) == Val("id", c, n, <<>>)           \* "<c>_<n>"
\* A variant that names the id after the one it is given.
UrlOfNext(id) == Val("url", id.s, id.n + 1, <<>>)

Url(id)    == Val("url", id.s, id.n, <<>>)    \* "url(#<c>_<n>)"
Href(id)   == Val("href", id.s, id.n, <<>>)   \* "#<c>_<n>"

\* SkStringPrintf("rgb(%u,%u,%u)", r, g, b): the alpha channel is dropped.
svg_color(color) == Val("rgb", "", color.rgb, <<>>)

\* SkColorGetA(color) / 255, kept as its numerator.
svg_opacity(color) == Val("over255", "", color.a, <<>>)

(***************************************************************************)
(* The writer as the device sees it.  w is the running state of one device *)
(* call: the writer's log and stack, the resource bucket, the device's     *)
(* clip stack, and `fault`, set when the process has died (nothing runs    *)
(* after that).                                                            *)
(***************************************************************************)
Ev(t, name, val, ctor) == [t |-> t, name |-> name, val |-> val, ctor |-> ctor]

writeHeader(w) ==
    IF w.fault THEN w
    ELSE [w EXCEPT !.log = Append(@, Ev("header", "", Empty, ""))]

\* SkXMLWriter::startElement, reached from an AutoElement constructor;
\* ctor is "plain" (line 326) or "paint" (line 332).
startElement(w, name, ctor) ==
    IF w.fault THEN w
    ELSE [w EXCEPT !.log = Append(@, Ev("start", name, Empty, ctor)),
                   !.stack = Append(@, name)]

\* SkXMLWriter::endElement: closes the innermost open element.  `name` is the
\* tag of the AutoElement whose destructor makes the call.
endElement(w, name) ==
    IF w.fault THEN w
    ELSE [w EXCEPT !.log = Append(@, Ev("end", name, Empty, "")),
                   !.stack = IF Len(@) = 0 THEN @ ELSE SubSeq(@, 1, Len(@) - 1)]

addAttribute(w, name, val) ==
    IF w.fault THEN w
    ELSE [w EXCEPT !.log = Append(@, Ev("attr", name, val, ""))]

addText(w, val) ==
    IF w.fault THEN w
    ELSE [w EXCEPT !.log = Append(@, Ev("text", "", val, ""))]

Fault(w) == [w EXCEPT !.fault = TRUE]

(***************************************************************************)
(* ResourceBucket.                                                         *)
(***************************************************************************)
Categories == {"gradient", "clip", "path", "img", "pattern", "cfilter"}

ResourceBucket == [c \in Categories |-> 0]

\* The id an add*() call returns: the counter's value before the increment.
NextId(w, c) == IdOf(c, w.bucket[c])

\* A variant that hands out the id without counting it.
NoBump(w, c) == w

\* The fXCount++ of an add*() call.
Bump(w, c) ==
    IF w.fault THEN w ELSE [w EXCEPT !.bucket[c] = @ + 1]

(***************************************************************************)
(* The inputs of a draw call, as far as the device looks at them.          *)
(***************************************************************************)
\* SkMatrix::TypeMask bits; a matrix is given by its type mask.
kTranslate_Mask   == 1
kScale_Mask       == 2
kPerspective_Mask == 8

Matrix(type) == [type |-> type]
isIdentity(m) == m.type = 0

\* svg_transform: the switch compares the whole type mask with each label.
svg_transform(t) ==
    CASE t.type = kPerspective_Mask -> Empty
      [] t.type = kTranslate_Mask   -> Val("xform", "translate", 2, <<>>)
      [] t.type = kScale_Mask       -> Val("xform", "scale", 2, <<>>)
      [] OTHER                      -> Val("xform", "matrix", 6, <<>>)

Color(a, rgb) == [a |-> a, rgb |-> rgb]

\* An SkImage: what encodeToData() returns ("null", "jpeg", "png", or "other"
\* for bytes that are neither), what encodeToData(kPNG, 100) returns, its size.
Image(first, second) == [first |-> first, second |-> second, w |-> 4, h |-> 3]

NoImage == Image("null", "null")

\* An SkShader: kind is "none" (no shader), "linear", "radial", "image" or
\* "other"; xy are the tile modes, local the local matrix, stops the colors.
Shader(kind, image, xy, local, stops) ==
    [kind |-> kind, image |-> image, xy |-> xy, local |-> local, stops |-> stops]

NoShader == Shader("none", NoImage, <<"clamp", "clamp">>, Matrix(0), <<>>)

\* An SkColorFilter: "none", "srcin" (asColorMode, kSrcIn), "modulate"
\* (asColorMode, another mode) or "matrix" (no color mode).
ColorFilter(kind, color) == [kind |-> kind, color |-> color]

\* The accumulated clip and its path: wide open or not; the path's shape
\* ("empty", "rect", "path"), its fill type, the rect it is when it is one.
Clip(open, shape, evenodd, rect) ==
    [open |-> open, shape |-> shape, evenodd |-> evenodd, rect |-> rect]

Rect(x, y, w, h) == [x |-> x, y |-> y, w |-> w, h |-> h]

MakeEmpty == Rect(0, 0, 0, 0)

\* An SkPath: its verbs' points, its fill type.
Path(pts, evenodd) == [pts |-> pts, evenodd |-> evenodd]

\* MxCp: the matrix and the clip stack a painted element is built under.
MxCp(matrix, clip) == [fMatrix |-> matrix, fClipStack |-> clip]

\* struct Resources: fPaintServer starts as the paint's color.
Resources(paint) ==
    [fPaintServer |-> svg_color(paint.color), fClip |-> Empty, fColorFilter |-> Empty]

(***************************************************************************)
(* AutoElement: the attribute helpers.                                     *)
(***************************************************************************)
\* A variant that writes x and y whatever their values are.
RectAttributesAll(w, rect) ==
    addAttribute(addAttribute(addAttribute(addAttribute(w,
        "x", Num(rect.x)), "y", Num(rect.y)), "width", Num(rect.w)), "height", Num(rect.h))

addRectAttributes(w, rect) ==
    LET w1 == IF rect.x # 0 THEN addAttribute(w, "x", Num(rect.x)) ELSE w
        w2 == IF rect.y # 0 THEN addAttribute(w1, "y", Num(rect.y)) ELSE w1
        w3 == addAttribute(w2, "width", Num(rect.w))
    IN  addAttribute(w3, "height", Num(rect.h))

\* SkParsePath::ToSVGString: the path data names the path's points in order.
addPathAttributes(w, path) ==
    addAttribute(w, "d", Val("d", "", 0, path.pts))

(***************************************************************************)
(* AutoElement::addPaint.                                                  *)
(***************************************************************************)
Fills(style)   == style \in {"fill", "strokeAndFill"}
Strokes(style) == style \in {"stroke", "strokeAndFill"}

cap_map(cap)   == CASE cap = "butt" -> "" [] cap = "round" -> "round" [] OTHER -> "square"
join_map(join) == CASE join = "miter" -> "" [] join = "round" -> "round" [] OTHER -> "bevel"

\* A variant that writes fill-opacity whatever the alpha is.
FillOpacityAlways(w, paint, resources) ==
    IF Fills(paint.style)
    THEN addAttribute(addAttribute(w, "fill", resources.fPaintServer),
                      "fill-opacity", svg_opacity(paint.color))
    ELSE addAttribute(w, "fill", Str("none"))

addPaintFill(w, paint, resources) ==
    IF Fills(paint.style)
    THEN LET w1 == addAttribute(w, "fill", resources.fPaintServer)
         IN  IF SK_AlphaOPAQUE # paint.color.a
             THEN addAttribute(w1, "fill-opacity", svg_opacity(paint.color))
             ELSE w1
    ELSE addAttribute(w, "fill", Str("none"))

\* A variant that writes a hairline's width as it is given.
StrokeNoHairline(w, paint, resources) ==
    IF Strokes(paint.style)
    THEN LET w1 == addAttribute(w, "stroke", resources.fPaintServer)
             w2 == addAttribute(w1, "stroke-width", Num(paint.strokeWidth))
             w3 == addAttribute(w2, "stroke-miterlimit", Num(paint.miter))
         IN  IF SK_AlphaOPAQUE # paint.color.a
             THEN addAttribute(w3, "stroke-opacity", svg_opacity(paint.color))
             ELSE w3
    ELSE addAttribute(w, "stroke", Str("none"))

addPaintStroke(w, paint, resources) ==
    IF Strokes(paint.style)
    THEN LET w1 == addAttribute(w, "stroke", resources.fPaintServer)
             w2 == IF paint.strokeWidth = 0
                   THEN addAttribute(addAttribute(w1, "vector-effect", Str("non-scaling-stroke")),
                                     "stroke-width", Num(1))
                   ELSE addAttribute(w1, "stroke-width", Num(paint.strokeWidth))
             w3 == IF cap_map(paint.cap) # ""
                   THEN addAttribute(w2, "stroke-linecap", Str(cap_map(paint.cap)))
                   ELSE w2
             w4 == IF join_map(paint.join) # ""
                   THEN addAttribute(w3, "stroke-linejoin", Str(join_map(paint.join)))
                   ELSE w3
             w5 == IF paint.join = "miter"
                   THEN addAttribute(w4, "stroke-miterlimit", Num(paint.miter))
                   ELSE w4
         IN  IF SK_AlphaOPAQUE # paint.color.a
             THEN addAttribute(w5, "stroke-opacity", svg_opacity(paint.color))
             ELSE w5
    ELSE addAttribute(w, "stroke", Str("none"))

addPaint(w, paint, resources) ==
    LET w1 == addPaintFill(w, paint, resources)
        w2 == IF resources.fColorFilter # Empty
              THEN addAttribute(w1, "filter", resources.fColorFilter)
              ELSE w1
    IN  addPaintStroke(w2, paint, resources)

(***************************************************************************)
(* Resource definitions.  c = [w, res]: the running state and the          *)
(* Resources being filled in.                                              *)
(***************************************************************************)
\* A variant whose clip rule is nonzero whatever the path's fill type is.
ClipRuleNonzero(c, mc) ==
    LET clipPath == mc.fClipStack
        clipID   == NextId(c.w, "clip")
        clipRect == IF clipPath.shape = "empty" THEN MakeEmpty ELSE clipPath.rect
        w1 == addAttribute(startElement(Bump(c.w, "clip"), "clipPath", "plain"), "id", clipID)
        w2 == IF clipPath.shape = "empty" \/ clipPath.shape = "rect"
              THEN endElement(addAttribute(addRectAttributes(startElement(w1, "rect", "plain"),
                                                             clipRect),
                                           "clip-rule", Str("nonzero")),
                              "rect")
              ELSE endElement(addAttribute(addPathAttributes(startElement(w1, "path", "plain"),
                                                             Path(<<>>, clipPath.evenodd)),
                                           "clip-rule", Str("nonzero")),
                              "path")
    IN  [w |-> endElement(w2, "clipPath"), res |-> [c.res EXCEPT !.fClip = Url(clipID)]]

addClipResources(c, mc) ==
    LET clipPath == mc.fClipStack
        clipID   == NextId(c.w, "clip")
        clipRule == IF clipPath.evenodd THEN "evenodd" ELSE "nonzero"
        clipRect == IF clipPath.shape = "empty" THEN MakeEmpty ELSE clipPath.rect
        w1 == addAttribute(startElement(Bump(c.w, "clip"), "clipPath", "plain"), "id", clipID)
        w2 == IF clipPath.shape = "empty" \/ clipPath.shape = "rect"
              THEN endElement(addAttribute(addRectAttributes(startElement(w1, "rect", "plain"),
                                                             clipRect),
                                           "clip-rule", Str(clipRule)),
                              "rect")
              ELSE endElement(addAttribute(addPathAttributes(startElement(w1, "path", "plain"),
                                                             Path(<<>>, clipPath.evenodd)),
                                           "clip-rule", Str(clipRule)),
                              "path")
    IN  [w |-> endElement(w2, "clipPath"), res |-> [c.res EXCEPT !.fClip = Url(clipID)]]

\* The loop over the gradient's colors, from stop i on.
RECURSIVE addStops(_, _, _)
addStops(w, stops, i) ==
    IF i > Len(stops) THEN w
    ELSE LET color == stops[i]
             w1 == addAttribute(addAttribute(startElement(w, "stop", "plain"),
                                             "offset", Num(i - 1)),
                                "stop-color", svg_color(color))
             w2 == IF SK_AlphaOPAQUE # color.a
                   THEN addAttribute(w1, "stop-opacity", svg_opacity(color))
                   ELSE w1
         IN  addStops(endElement(w2, "stop"), stops, i + 1)

\* Returns the running state; the id is the one NextId gave before the call.
addLinearGradientDef(w, shader) ==
    LET id == NextId(w, "gradient")
        w1 == addAttribute(startElement(Bump(w, "gradient"), "linearGradient", "plain"), "id", id)
        w2 == addAttribute(w1, "gradientUnits", Str("userSpaceOnUse"))
        w3 == addAttribute(addAttribute(addAttribute(addAttribute(w2,
                  "x1", Num(0)), "y1", Num(0)), "x2", Num(1)), "y2", Num(1))
        w4 == IF ~isIdentity(shader.local)
              THEN addAttribute(w3, "gradientTransform", svg_transform(shader.local))
              ELSE w3
    IN  endElement(addStops(w4, shader.stops, 1), "linearGradient")

addGradientShaderResources(c, shader) ==
    IF shader.kind # "linear" THEN c
    ELSE [w   |-> addLinearGradientDef(c.w, shader),
          res |-> [c.res EXCEPT !.fPaintServer = Url(NextId(c.w, "gradient"))]]

\* AsDataUri: [null, fault, uri].  When the first encoding is neither JPEG nor
\* PNG the image is encoded again, and the result is used unchecked: a null
\* result is dereferenced, which the build resolves as w.ub.deref says.
AsDataUri(image, ub) ==
    LET uri(fmt, n) == Val("datauri", fmt, n, <<>>)
        R(null, fault, u) == [null |-> null, fault |-> fault, uri |-> u]
    IN  CASE image.first = "null" -> R(TRUE, FALSE, Empty)
          [] image.first = "jpeg" -> R(FALSE, FALSE, uri("jpeg", 0))
          [] image.first = "png"  -> R(FALSE, FALSE, uri("png", 0))
          [] OTHER ->
               IF image.second # "null" THEN R(FALSE, FALSE, uri("png", 0))
               ELSE IF ub.deref = "fault" THEN R(FALSE, TRUE, Empty)
               ELSE R(FALSE, FALSE, uri("png", -1))

\* A variant that gives the image's size for every tile mode.
PatternDimImage(mode, imageDimension) == Num(imageDimension)

patternDim(mode, imageDimension) ==
    IF mode = "repeat" THEN Num(imageDimension) ELSE Str("100%")

addImageShaderResources(c, shader) ==
    LET image   == shader.image
        dataUri == AsDataUri(image, c.w.ub)
        patternID == NextId(c.w, "pattern")
        w1 == addAttribute(startElement(Bump(c.w, "pattern"), "pattern", "plain"),
                           "id", patternID)
        w2 == addAttribute(addAttribute(w1, "patternUnits", Str("userSpaceOnUse")),
                           "patternContentUnits", Str("userSpaceOnUse"))
        w3 == addAttribute(addAttribute(w2, "width", patternDim(shader.xy[1], image.w)),
                           "height", patternDim(shader.xy[2], image.h))
        w4 == addAttribute(addAttribute(w3, "x", Num(0)), "y", Num(0))
        imageID == NextId(c.w, "img")
        w5 == addAttribute(startElement(Bump(w4, "img"), "image", "plain"), "id", imageID)
        w6 == addAttribute(addAttribute(w5, "x", Num(0)), "y", Num(0))
        w7 == addAttribute(addAttribute(w6, "width", Num(image.w)), "height", Num(image.h))
        w8 == endElement(addAttribute(w7, "xlink:href", dataUri.uri), "image")
    IN  IF dataUri.fault THEN [c EXCEPT !.w = Fault(@)]
        ELSE IF dataUri.null THEN c
        ELSE [w   |-> endElement(w8, "pattern"),
              res |-> [c.res EXCEPT !.fPaintServer = Url(patternID)]]

\* asAGradient(nullptr) != kNone_GradientType holds of every gradient kind.
addShaderResources(c, paint) ==
    LET shader == paint.shader
    IN  IF shader.kind \in {"linear", "radial"} THEN addGradientShaderResources(c, shader)
        ELSE IF shader.kind = "image" THEN addImageShaderResources(c, shader)
        ELSE c

addColorFilterResources(c, cf) ==
    LET colorfilterID == NextId(c.w, "cfilter")
        w1 == addAttribute(startElement(Bump(c.w, "cfilter"), "filter", "plain"),
                           "id", colorfilterID)
        w2 == addAttribute(addAttribute(addAttribute(addAttribute(w1,
                  "x", Str("0%")), "y", Str("0%")), "width", Str("100%")), "height", Str("100%"))
        w3 == addAttribute(addAttribute(addAttribute(startElement(w2, "feFlood", "plain"),
                  "flood-color", svg_color(cf.color)),
                  "flood-opacity", svg_opacity(cf.color)),
                  "result", Str("flood"))
        w4 == endElement(w3, "feFlood")
        w5 == addAttribute(addAttribute(startElement(w4, "feComposite", "plain"),
                  "in", Str("flood")), "operator", Str("in"))
    IN  [w   |-> endElement(endElement(w5, "feComposite"), "filter"),
         res |-> [c.res EXCEPT !.fColorFilter = Url(colorfilterID)]]

\* A variant that opens <defs> for a clip only.
ClipOnlyDefs(hasClip, hasShader) == hasClip

\* The condition under which addResources opens <defs>.
NeedsDefs(hasClip, hasShader) == hasClip \/ hasShader

\* A variant that gives the clip and the shader a <defs> each.
DefsEach(w, mc, paint) ==
    LET hasClip   == ~mc.fClipStack.open
        hasShader == paint.shader.kind # "none"
        hasFilter == paint.cf.kind = "srcin"
        c0 == [w |-> w, res |-> Resources(paint)]
        c1 == IF hasClip
              THEN LET d1 == addClipResources([c0 EXCEPT !.w = startElement(@, "defs", "plain")],
                                              mc)
                   IN  [d1 EXCEPT !.w = endElement(@, "defs")]
              ELSE c0
        c2 == IF hasShader
              THEN LET d2 == addShaderResources([c1 EXCEPT !.w = startElement(@, "defs", "plain")],
                                                paint)
                   IN  [d2 EXCEPT !.w = endElement(@, "defs")]
              ELSE c1
    IN  IF hasFilter THEN addColorFilterResources(c2, paint.cf) ELSE c2

addResources(w, mc, paint) ==
    LET hasClip   == ~mc.fClipStack.open
        hasShader == paint.shader.kind # "none"
        hasFilter == paint.cf.kind = "srcin"
        c0 == [w |-> w, res |-> Resources(paint)]
        c1 == IF NeedsDefs(hasClip, hasShader)
              THEN LET d0 == [c0 EXCEPT !.w = startElement(@, "defs", "plain")]
                       d1 == IF hasClip THEN addClipResources(d0, mc) ELSE d0
                       d2 == IF hasShader THEN addShaderResources(d1, paint) ELSE d1
                   IN  [d2 EXCEPT !.w = endElement(@, "defs")]
              ELSE c0
    IN  IF hasFilter THEN addColorFilterResources(c1, paint.cf) ELSE c1

(***************************************************************************)
(* AutoElement: construction and destruction.  A constructor returns the   *)
(* running state and the object it built, [name, fClipGroup].              *)
(***************************************************************************)
Built(w, name, fClipGroup) == [w |-> w, name |-> name, fClipGroup |-> fClipGroup]

\* AutoElement(name, writer)
AutoElement(w, name) == Built(startElement(w, name, "plain"), name, FALSE)

\* A variant that never opens the clip group.
AutoElementNoGroup(c, name, mc, paint) ==
    LET w3 == addPaint(startElement(c.w, name, "paint"), paint, c.res)
    IN  Built(IF ~isIdentity(mc.fMatrix)
              THEN addAttribute(w3, "transform", svg_transform(mc.fMatrix))
              ELSE w3,
              name, FALSE)

\* AutoElement(name, writer, bucket, mc, paint), from the resources on:
\* c is what addResources returned.
AutoElementWith(c, name, mc, paint) ==
    LET fClipGroup == c.res.fClip # Empty
        w1 == IF fClipGroup
              THEN addAttribute(AutoElement(c.w, "g").w, "clip-path", c.res.fClip)
              ELSE c.w
        w2 == startElement(w1, name, "paint")
        w3 == addPaint(w2, paint, c.res)
        w4 == IF ~isIdentity(mc.fMatrix)
              THEN addAttribute(w3, "transform", svg_transform(mc.fMatrix))
              ELSE w3
    IN  Built(w4, name, fClipGroup)

\* AutoElement(name, writer, bucket, mc, paint)
AutoElementPaint(w, name, mc, paint) ==
    AutoElementWith(addResources(w, mc, paint), name, mc, paint)

\* A variant that destroys the members before the body runs.
GroupFirstDestroy(w, e) ==
    IF e.fClipGroup THEN endElement(endElement(w, "g"), e.name)
    ELSE endElement(w, e.name)

\* ~AutoElement(): the body ends the element, then the members go: fClipGroup,
\* when set, ends the <g> it holds.
DestroyAutoElement(w, e) ==
    IF e.fClipGroup THEN endElement(endElement(w, e.name), "g")
    ELSE endElement(w, e.name)

\* A block that holds the AutoElement e: Body runs from the state e was built
\* in, and e is destroyed as the block is left.
Scoped(e, Body(_)) == DestroyAutoElement(Body(e.w), e)

(***************************************************************************)
(* SVGTextBuilder.  Characters are one-character strings, "NUL" is \0.     *)
(* The position array is pos[k] = PosAt(k); the position strings are kept  *)
(* as the sequences of their entries.                                      *)
(***************************************************************************)
PosAt(k) == 10 * (k + 1)

Point(x, y) == [x |-> x, y |-> y]

NewBuilder(offset, scalarsPerPos) ==
    [fOffset |-> offset, fScalarsPerPos |-> scalarsPerPos, fPos |-> 0,
     fText |-> <<>>, fPosX |-> <<>>, fPosY |-> <<>>,
     fLastCharWasWhitespace |-> TRUE,
     src |-> <<>>, done |-> FALSE]

\* A variant that leaves the cursor where it is when the entry is discarded.
AdvanceKeptOnly(b, discard) ==
    IF ~discard
    THEN [b EXCEPT !.fPosX = IF b.fScalarsPerPos > 0
                             THEN Append(@, b.fOffset.x + PosAt(b.fPos)) ELSE @,
                   !.fPosY = IF b.fScalarsPerPos > 1
                             THEN Append(@, b.fOffset.y + PosAt(b.fPos + 1)) ELSE @,
                   !.fPos = @ + b.fScalarsPerPos]
    ELSE b

advancePos(b, discard) ==
    LET b1 == IF ~discard /\ b.fScalarsPerPos > 0
              THEN [b EXCEPT !.fPosX = Append(@, b.fOffset.x + PosAt(b.fPos)),
                             !.fPosY = IF b.fScalarsPerPos > 1
                                       THEN Append(@, b.fOffset.y + PosAt(b.fPos + 1))
                                       ELSE @]
              ELSE b
    IN  [b1 EXCEPT !.fPos = @ + b.fScalarsPerPos]

Entity(c) ==
    CASE c = "&"  -> <<"&", "a", "m", "p", ";">>
      [] c = "\"" -> <<"&", "q", "u", "o", "t", ";">>
      [] c = "'"  -> <<"&", "a", "p", "o", "s", ";">>
      [] c = "<"  -> <<"&", "l", "t", ";">>
      [] c = ">"  -> <<"&", "g", "t", ";">>

\* What the whitespace case appends when the last character was none.
KeptWhitespace(c) == <<c>>

appendUnichar(b, c) ==
    LET isSpace == c = " " \/ c = "\t"
        discardPos   == (isSpace /\ b.fLastCharWasWhitespace) \/ c = "NUL"
        isWhitespace == IF isSpace THEN TRUE
                        ELSE IF c = "NUL" THEN b.fLastCharWasWhitespace
                        ELSE FALSE
        appended == CASE isSpace -> IF b.fLastCharWasWhitespace THEN <<>>
                                    ELSE KeptWhitespace(c)
                      [] c = "NUL" -> <<>>
                      [] c \in {"&", "\"", "'", "<", ">"} -> Entity(c)
                      [] OTHER -> <<c>>
        b1 == [b EXCEPT !.fText = @ \o appended, !.src = Append(@, c)]
    IN  [advancePos(b1, discardPos) EXCEPT !.fLastCharWasWhitespace = isWhitespace]

\* The end of the constructor: the fixed coordinates.
finishBuilder(b) ==
    LET b1 == IF b.fScalarsPerPos < 2 THEN [b EXCEPT !.fPosY = Append(@, b.fOffset.y)] ELSE b
        b2 == IF b.fScalarsPerPos < 1 THEN [b1 EXCEPT !.fPosX = Append(@, b.fOffset.x)] ELSE b1
    IN  [b2 EXCEPT !.done = TRUE]

RECURSIVE appendAll(_, _, _)
appendAll(b, text, i) ==
    IF i > Len(text) THEN b ELSE appendAll(appendUnichar(b, text[i]), text, i + 1)

SVGTextBuilder(text, offset, scalarsPerPos) ==
    finishBuilder(appendAll(NewBuilder(offset, scalarsPerPos), text, 1))

(***************************************************************************)
(* AutoElement::addTextAttributes.                                         *)
(***************************************************************************)
text_align_map(align) ==
    CASE align = "left" -> "" [] align = "center" -> "middle" [] OTHER -> "end"

SkTPin(x, lo, hi) == IF x < lo THEN lo ELSE IF x > hi THEN hi ELSE x

weights ==
    <<"100", "200", "300", "normal", "400", "500", "600", "bold", "800", "900">>

stretches ==
    <<"ultra-condensed", "extra-condensed", "condensed", "semi-condensed", "normal",
      "semi-expanded", "expanded", "extra-expanded", "ultra-expanded">>

\* The family names in order, each kept the first time it is met.
RECURSIVE familyNames(_, _, _)
familyNames(names, i, acc) ==
    IF i > Len(names) THEN acc
    ELSE familyNames(names, i + 1,
                     IF \E j \in 1..Len(acc) : acc[j] = names[i]
                     THEN acc ELSE Append(acc, names[i]))

\* The index into weights[] of a typeface weight.
weightIndex(weight) == (SkTPin(weight, 100, 900) - 50) \div 100

addTextAttributes(w, paint) ==
    LET style == paint.typeface
        w1 == addAttribute(w, "font-size", Num(paint.textSize))
        w2 == IF text_align_map(paint.align) # ""
              THEN addAttribute(w1, "text-anchor", Str(text_align_map(paint.align)))
              ELSE w1
        w3 == IF style.slant = "italic" THEN addAttribute(w2, "font-style", Str("italic"))
              ELSE IF style.slant = "oblique" THEN addAttribute(w2, "font-style", Str("oblique"))
              ELSE w2
        w4 == IF weightIndex(style.weight) # 3
              THEN addAttribute(w3, "font-weight",
                                Str(weights[weightIndex(style.weight) + 1]))
              ELSE w3
        stretchIndex == style.width - 1
        w5 == IF stretchIndex # 4
              THEN addAttribute(w4, "font-stretch", Str(stretches[stretchIndex + 1]))
              ELSE w4
        familyName == familyNames(style.families, 1, <<>>)
    IN  IF familyName # <<>>
        THEN addAttribute(w5, "font-family", Val("names", "", 0, familyName))
        ELSE w5

(***************************************************************************)
(* SkSVGDevice: the entry points, each from the running state at its call  *)
(* to the running state at its return.                                     *)
(***************************************************************************)
DeviceSize == [fWidth |-> 8, fHeight |-> 6]

\* A variant that opens the root before the header is written.
RootBeforeHeader(w, size) ==
    LET w1 == writeHeader(AutoElement(w, "svg").w)
        w2 == addAttribute(w1, "xmlns", Str("http://www.w3.org/2000/svg"))
        w3 == addAttribute(w2, "xmlns:xlink", Str("http://www.w3.org/1999/xlink"))
    IN  addAttribute(addAttribute(w3, "width", Num(size.fWidth)), "height", Num(size.fHeight))

\* new SkSVGDevice(size, writer)
NewSkSVGDevice(w, size) ==
    LET w1 == AutoElement(writeHeader(w), "svg").w
        w2 == addAttribute(w1, "xmlns", Str("http://www.w3.org/2000/svg"))
        w3 == addAttribute(w2, "xmlns:xlink", Str("http://www.w3.org/1999/xlink"))
    IN  addAttribute(addAttribute(w3, "width", Num(size.fWidth)), "height", Num(size.fHeight))

\* A variant that leaves the root element open.
LeakRoot(w) == w

\* ~SkSVGDevice(): fRootElement goes with the device.
DeleteSkSVGDevice(w) == DestroyAutoElement(w, Built(w, "svg", FALSE))

\* SkClipStack as the device calls it.  Top is the clip in force; save()
\* opens a level with the same clip, clipRect narrows the level in force,
\* restore() drops it.
Top(s) == s[Len(s)]

save(w) == IF w.fault THEN w ELSE [w EXCEPT !.cs = Append(@, Top(@))]

restore(w) == IF w.fault THEN w ELSE [w EXCEPT !.cs = SubSeq(@, 1, Len(@) - 1)]

\* cs->clipRect(dst, ctm, kIntersect_SkClipOp, aa): the clip is no longer wide
\* open; a wide-open clip becomes the rect, any other keeps its shape.
clipRect(clip, dst) ==
    IF clip.open THEN Clip(FALSE, "rect", FALSE, dst) ELSE clip

\* The clipRect call on the device's clip stack.
clipRectOn(w, dst) ==
    IF w.fault THEN w ELSE [w EXCEPT !.cs[Len(w.cs)] = clipRect(@, dst)]

drawPaint(w, mc, paint) ==
    Scoped(AutoElementPaint(w, "rect", mc, paint),
           LAMBDA x : addRectAttributes(x, Rect(0, 0, DeviceSize.fWidth, DeviceSize.fHeight)))

\* value is "null" or the link; key "url", "dest" or another key; bounds the
\* device-space bounds of the rect under the matrix and the clip.
drawAnnotation(w, key, value, bounds) ==
    IF value = "null" THEN w
    ELSE IF key = "url" \/ key = "dest"
    THEN LET w1 == restore(clipRectOn(save(w), bounds))
         IN  IF bounds.w = 0 \/ bounds.h = 0 THEN w1
             ELSE Scoped(AutoElement(w1, "a"),
                         LAMBDA a :
                           Scoped(AutoElement(addAttribute(a, "xlink:href", Str(value)), "rect"),
                                  LAMBDA r :
                                    addRectAttributes(addAttribute(r, "fill-opacity",
                                                                   Str("0.0")),
                                                      bounds)))
    ELSE w

\* One <path> of drawPoints: the points named are indices into pts[].
pointsElem(w, ptsRead, mc, paint) ==
    Scoped(AutoElementPaint(w, "path", mc, paint),
           LAMBDA elem : addPathAttributes(elem, Path(ptsRead, FALSE)))

\* for (size_t i = 0; i < count; i += 2), count already decremented; n is the
\* number of points pts[] holds.  A read past the array is undefined: it
\* yields garbage for w.ub.oob rounds at most, then the fault.
RECURSIVE linesLoop(_, _, _, _, _, _, _)
linesLoop(w, i, count, n, mc, paint, oobLeft) ==
    IF i >= count \/ w.fault THEN w
    ELSE IF i + 1 >= n
    THEN IF oobLeft = 0 THEN Fault(w)
         ELSE linesLoop(pointsElem(w, <<i, i + 1>>, mc, paint),
                        i + 2, count, n, mc, paint, oobLeft - 1)
    ELSE linesLoop(pointsElem(w, <<i, i + 1>>, mc, paint),
                   i + 2, count, n, mc, paint, oobLeft)

\* count -= 1 on a size_t.
Decrement(count) == (count - 1) % SizeMod

drawPoints(w, mode, count, mc, paint) ==
    CASE mode = "points" -> w
      [] mode = "lines" -> linesLoop(w, 0, Decrement(count), count, mc, paint, w.ub.oob)
      [] OTHER ->
           IF count > 1
           THEN pointsElem(w, [k \in 1..(count + 1) |-> IF k <= count THEN k - 1 ELSE 0],
                           mc, paint)
           ELSE w

RequiresViewportReset(paint) ==
    /\ paint.shader.kind = "image"
    /\ \E i \in 1..2 : paint.shader.xy[i] = "repeat"

drawRect(w, r, mc, paint) ==
    IF RequiresViewportReset(paint)
    THEN Scoped(AutoElementPaint(w, "svg", mc, paint),
                LAMBDA svg :
                  Scoped(AutoElementPaint(addRectAttributes(svg, r), "rect", mc, paint),
                         LAMBDA rect :
                           addAttribute(addAttribute(addAttribute(addAttribute(rect,
                               "x", Num(0)), "y", Num(0)),
                               "width", Str("100%")), "height", Str("100%"))))
    ELSE Scoped(AutoElementPaint(w, "rect", mc, paint),
                LAMBDA rect : addRectAttributes(rect, r))

\* Centers and radii are halves: kept as twice their value.
Half(n) == Val("half", "", n, <<>>)

drawOval(w, oval, mc, paint) ==
    Scoped(AutoElementPaint(w, "ellipse", mc, paint),
           LAMBDA ellipse :
             addAttribute(addAttribute(addAttribute(addAttribute(ellipse,
                 "cx", Half(2 * oval.x + oval.w)), "cy", Half(2 * oval.y + oval.h)),
                 "rx", Half(oval.w)), "ry", Half(oval.h)))

drawPath(w, path, mc, paint) ==
    Scoped(AutoElementPaint(w, "path", mc, paint),
           LAMBDA elem :
             IF path.evenodd
             THEN addAttribute(addPathAttributes(elem, path), "fill-rule", Str("evenodd"))
             ELSE addPathAttributes(elem, path))

\* path.addRRect(rr): the path of the round rect, fill type winding.
drawRRect(w, rr, mc, paint) ==
    Scoped(AutoElementPaint(w, "path", mc, paint),
           LAMBDA elem : addPathAttributes(elem, Path(<<rr.x, rr.y, rr.w, rr.h>>, FALSE)))

\* encode(bm): the PNG bytes, or null when SkEncodeImage fails.
encode(bm) == bm.png

\* The <defs><image/></defs> block of drawBitmapCommon.
bitmapImageDef(w, imageID, bm) ==
    Scoped(AutoElement(w, "defs"),
           LAMBDA defs :
             Scoped(AutoElement(defs, "image"),
                    LAMBDA image :
                      addAttribute(addAttribute(addAttribute(addAttribute(image,
                          "id", imageID), "width", Num(bm.w)), "height", Num(bm.h)),
                          "xlink:href", Val("datauri", "png", 0, <<>>))))

drawBitmapCommon(w, mc, bm, paint) ==
    IF encode(bm) = "null" THEN w
    ELSE Scoped(AutoElementPaint(bitmapImageDef(Bump(w, "img"), NextId(w, "img"), bm),
                                 "use", mc, paint),
                LAMBDA imageUse : addAttribute(imageUse, "xlink:href", Href(NextId(w, "img"))))

\* The bits of a type mask, and the mask of a product of two matrices.
Bit(m, b) == (m \div b) % 2
BitOr(m1, m2) ==
    LET or(b) == IF Bit(m1, b) = 1 \/ Bit(m2, b) = 1 THEN b ELSE 0
    IN  or(1) + or(2) + or(4) + or(8)

\* adjustedMatrix.preTranslate(x, y): moved is whether (x, y) is not (0, 0).
preTranslate(m, moved) == IF moved THEN Matrix(BitOr(m.type, kTranslate_Mask)) ELSE m

drawBitmap(w, mc, bm, moved, paint) ==
    drawBitmapCommon(w, MxCp(preTranslate(mc.fMatrix, moved), mc.fClipStack), bm, paint)

drawSprite(w, mc, bm, moved, paint) ==
    drawBitmapCommon(w, MxCp(preTranslate(mc.fMatrix, moved), mc.fClipStack), bm, paint)

\* A variant that restores nothing.
KeepLevels(w, fSaveCount) == w

\* ~AutoRestore(): restore() until the save count is the one the constructor
\* found.
DestroyAutoRestore(w, fSaveCount) ==
    IF w.fault \/ Len(w.cs) <= fSaveCount THEN w
    ELSE [w EXCEPT !.cs = SubSeq(@, 1, fSaveCount)]

\* src is "null", "full" (the bitmap's bounds) or "part"; fit is the type of
\* the matrix setRectToRect computes.  mc is MxCp(this): this->ctm() and
\* this->cs(), whose clip in force is Top(w.cs).
drawBitmapRect(w, mc, bm, src, dst, fit, paint) ==
    LET fSaveCount == Len(w.cs)
        w1 == IF src = "part" THEN clipRectOn(save(w), dst) ELSE w
        adjustedMatrix == Matrix(BitOr(fit, mc.fMatrix.type))
    IN  DestroyAutoRestore(drawBitmapCommon(w1, MxCp(adjustedMatrix, Top(w1.cs)), bm, paint),
                           fSaveCount)

PosList(seq) == Val("list", "", 0, seq)

\* What drawPosText writes once the builder is built.
addBuiltText(w, builder) ==
    addText(addAttribute(addAttribute(w, "x", PosList(builder.fPosX)),
                         "y", PosList(builder.fPosY)),
            Val("text", "", 0, builder.fText))

drawPosText(w, text, scalarsPerPos, offset, mc, paint) ==
    Scoped(AutoElementPaint(w, "text", mc, paint),
           LAMBDA elem :
             addBuiltText(addTextAttributes(elem, paint),
                          SVGTextBuilder(text, offset, scalarsPerPos)))

\* The <defs><path/></defs> block of drawTextOnPath.
textPathDef(w, pathID, path) ==
    Scoped(AutoElement(w, "defs"),
           LAMBDA defs :
             Scoped(AutoElement(defs, "path"),
                    LAMBDA pathElement :
                      addPathAttributes(addAttribute(pathElement, "id", pathID), path)))

\* The attributes of the <text> of drawTextOnPath.
textHead(w, hasMatrix, matrix, paint) ==
    IF hasMatrix /\ ~isIdentity(matrix)
    THEN addAttribute(addTextAttributes(w, paint), "transform", svg_transform(matrix))
    ELSE addTextAttributes(w, paint)

\* The attributes of the <textPath> of drawTextOnPath.
textPathHead(w, pathID, paint) ==
    IF paint.align # "left"
    THEN addAttribute(addAttribute(w, "xlink:href", Href(pathID)), "startOffset",
                      Str(IF paint.align = "center" THEN "50%" ELSE "100%"))
    ELSE addAttribute(w, "xlink:href", Href(pathID))

\* hasMatrix is whether the matrix pointer is not null.
drawTextOnPath(w, text, path, hasMatrix, matrix, paint) ==
    Scoped(AutoElement(textPathDef(Bump(w, "path"), NextId(w, "path"), path), "text"),
           LAMBDA textElement :
             Scoped(AutoElement(textHead(textElement, hasMatrix, matrix, paint), "textPath"),
                    LAMBDA textPathElement :
                      addText(textPathHead(textPathElement, NextId(w, "path"), paint),
                              Val("text", "", 0, SVGTextBuilder(text, Point(0, 0), 0).fText))))

(***************************************************************************)
(* The arguments the draw calls are given.                                 *)
(***************************************************************************)
Typeface(slant, weight, width, families) ==
    [slant |-> slant, weight |-> weight, width |-> width, families |-> families]

Paint(style, color, strokeWidth, cap, join, shader, cf, align, typeface) ==
    [style |-> style, color |-> color, strokeWidth |-> strokeWidth, cap |-> cap,
     join |-> join, miter |-> 4, shader |-> shader, cf |-> cf, align |-> align,
     textSize |-> 12, typeface |-> typeface]

TileModes == {"clamp", "repeat"}

Images ==
    {Image("null", "png"), Image("jpeg", "png"), Image("png", "png"),
     Image("other", "png"), Image("other", "null")}

GradientStops == <<Color(255, 1), Color(128, 2)>>

LinearShader ==
    Shader("linear", NoImage, <<"clamp", "clamp">>, Matrix(kTranslate_Mask), GradientStops)

ImageShader(im, tx, ty) == Shader("image", im, <<tx, ty>>, Matrix(0), <<>>)

Shaders ==
    {NoShader, LinearShader,
     Shader("radial", NoImage, <<"clamp", "clamp">>, Matrix(0), GradientStops),
     Shader("other", NoImage, <<"clamp", "clamp">>, Matrix(0), <<>>)}
    \cup {ImageShader(im, "clamp", "clamp") : im \in Images}
    \cup {ImageShader(Image("png", "png"), tx, ty) : tx \in TileModes, ty \in TileModes}

NoFilter == ColorFilter("none", Color(0, 0))
SrcInFilter == ColorFilter("srcin", Color(128, 3))

ColorFilters == {NoFilter, SrcInFilter, ColorFilter("modulate", Color(255, 3))}

WideOpen == Clip(TRUE, "empty", FALSE, MakeEmpty)

Clips ==
    {WideOpen,
     Clip(FALSE, "empty", FALSE, MakeEmpty),
     Clip(FALSE, "rect", FALSE, Rect(0, 2, 4, 4)),
     Clip(FALSE, "path", FALSE, MakeEmpty),
     Clip(FALSE, "path", TRUE, MakeEmpty)}

\* The clip stacks a draw call finds: one level with any clip, or a saved
\* wide-open level under a clipped one.
ClipStacks ==
    {<<cl>> : cl \in Clips} \cup {<<WideOpen, Clip(FALSE, "rect", FALSE, Rect(0, 2, 4, 4))>>}

\* The type masks of the device matrix: identity and translate.
CtmTypes == {0, kTranslate_Mask}

MxCps ==
    {MxCp(Matrix(0), cl) : cl \in Clips} \cup {MxCp(Matrix(t), WideOpen) : t \in CtmTypes}

PlainFace == Typeface("upright", 400, 5, <<1, 1, 2>>)

FilledPaint(sh, cf) ==
    Paint("fill", Color(255, 7), 0, "butt", "miter", sh, cf, "left", PlainFace)

\* The paints of drawPaint and drawRect: every shader without a color filter
\* and with a source-in one, and one paint for each other color filter.
Paints ==
    {FilledPaint(sh, cf) : sh \in Shaders, cf \in {NoFilter, SrcInFilter}}
    \cup {FilledPaint(NoShader, cf) : cf \in ColorFilters}

\* The paints of drawOval, drawRRect and drawPath.
FewPaints ==
    {FilledPaint(NoShader, NoFilter), FilledPaint(NoShader, SrcInFilter),
     FilledPaint(ImageShader(Image("png", "png"), "repeat", "clamp"), SrcInFilter),
     FilledPaint(ImageShader(Image("other", "null"), "clamp", "repeat"), NoFilter)}

\* The paints of drawPoints, the bitmap calls and drawPosText: one that needs
\* no resource and one with a pattern and a color filter.
TwoPaints ==
    {FilledPaint(NoShader, NoFilter),
     FilledPaint(ImageShader(Image("png", "png"), "repeat", "clamp"), SrcInFilter)}

FewMxCps ==
    {MxCp(Matrix(0), WideOpen),
     MxCp(Matrix(kTranslate_Mask), Clip(FALSE, "rect", FALSE, Rect(0, 2, 4, 4)))}

\* How the build resolves undefined behaviour during a call: what a null
\* dereference does, and how many loop rounds read past pts[] before the fault.
UB(deref, oob) == [deref |-> deref, oob |-> oob]

DerefsOf(paint) ==
    IF paint.shader.kind = "image" /\ paint.shader.image.first = "other"
       /\ paint.shader.image.second = "null"
    THEN {"fault", "garbage"} ELSE {"fault"}

Bitmap(png) == [png |-> png, w |-> 2, h |-> 2]

Bitmaps == {Bitmap("png"), Bitmap("null")}

Rects == {Rect(0, 0, 10, 20), Rect(5, 0, 10, 20)}

Texts == {<<"a", " ", " ", "a">>, <<" ", "&", "NUL">>}


TextPaints ==
    {Paint("fill", Color(255, 7), 0, "butt", "miter", NoShader, NoFilter, a, PlainFace) :
        a \in {"left", "center", "right"}}

PointModes == {"points", "lines", "polygon"}

(***************************************************************************)
(* The device and its caller.                                              *)
(***************************************************************************)
Idle == [op |-> "idle"]

NoBuilder == [done |-> TRUE, fText |-> <<>>, src |-> <<>>]

\* The running state at the start of a call.
Running(ub) ==
    [log |-> <<>>, stack |-> stack, bucket |-> bucket, cs |-> cs, fault |-> FALSE,
     ub |-> ub]

NoUB == UB("fault", 0)

Call(op, mc, paint, ub, arg) ==
    [op |-> op, mc |-> mc, paint |-> paint, ub |-> ub, arg |-> arg]

Init ==
    /\ dev = "none"
    /\ stack = <<>>
    /\ log = <<>>
    /\ bucket = ResourceBucket
    /\ pre = ResourceBucket
    /\ call = Idle
    /\ ncalls = 0
    /\ cs = <<WideOpen>>
    /\ tb = NoBuilder

\* SkSVGDevice::Create(size, writer)
Create ==
    /\ dev \in {"none", "null"}
    /\ call = Idle
    /\ \E writer \in {"null", "writer"} :
         LET w == IF writer = "null" THEN Running(NoUB)
                  ELSE NewSkSVGDevice(Running(NoUB), DeviceSize)
         IN  /\ dev' = IF writer = "null" THEN "null" ELSE "live"
             /\ stack' = w.stack
             /\ log' = w.log
             /\ bucket' = ResourceBucket
             /\ pre' = ResourceBucket
             /\ call' = [op |-> "Create", writer |-> writer]
    /\ UNCHANGED <<ncalls, cs, tb>>

\* delete device
Destroy ==
    /\ dev = "live"
    /\ call = Idle
    /\ LET w == DeleteSkSVGDevice(Running(NoUB))
       IN  /\ dev' = "deleted"
           /\ stack' = w.stack
           /\ log' = w.log
           /\ call' = [op |-> "Destroy"]
    /\ pre' = bucket
    /\ UNCHANGED <<bucket, ncalls, cs, tb>>

\* The caller may make a draw call.
Ready == dev = "live" /\ call = Idle /\ ncalls < MaxCalls

\* The draw call c has run from Running(c.ub) to w.
Ran(c, w) ==
    /\ dev' = IF w.fault THEN "crashed" ELSE "live"
    /\ stack' = w.stack
    /\ log' = w.log
    /\ bucket' = w.bucket
    /\ pre' = bucket
    /\ call' = c
    /\ ncalls' = ncalls + 1
    /\ cs' = w.cs
    /\ UNCHANGED tb

DrawPaint ==
    /\ Ready
    /\ \E mc \in MxCps, paint \in Paints, d \in {"fault", "garbage"} :
         /\ cs = <<mc.fClipStack>>
         /\ d \in DerefsOf(paint)
         /\ Ran(Call("drawPaint", mc, paint, UB(d, 0), <<>>),
                drawPaint(Running(UB(d, 0)), mc, paint))

DrawRect ==
    /\ Ready
    /\ \E mc \in FewMxCps, paint \in Paints, d \in {"fault", "garbage"}, r \in Rects :
         /\ cs = <<mc.fClipStack>>
         /\ d \in DerefsOf(paint)
         /\ Ran(Call("drawRect", mc, paint, UB(d, 0), [r |-> r]),
                drawRect(Running(UB(d, 0)), r, mc, paint))

DrawOval ==
    /\ Ready
    /\ \E mc \in FewMxCps, paint \in FewPaints, d \in {"fault", "garbage"} :
         /\ cs = <<mc.fClipStack>>
         /\ d \in DerefsOf(paint)
         /\ Ran(Call("drawOval", mc, paint, UB(d, 0), [oval |-> Rect(0, 0, 10, 20)]),
                drawOval(Running(UB(d, 0)), Rect(0, 0, 10, 20), mc, paint))

DrawRRect ==
    /\ Ready
    /\ \E mc \in FewMxCps, paint \in FewPaints, d \in {"fault", "garbage"} :
         /\ cs = <<mc.fClipStack>>
         /\ d \in DerefsOf(paint)
         /\ Ran(Call("drawRRect", mc, paint, UB(d, 0), [rr |-> Rect(0, 0, 10, 20)]),
                drawRRect(Running(UB(d, 0)), Rect(0, 0, 10, 20), mc, paint))

DrawPath ==
    /\ Ready
    /\ \E mc \in FewMxCps, paint \in FewPaints, d \in {"fault", "garbage"}, eo \in BOOLEAN :
         /\ cs = <<mc.fClipStack>>
         /\ d \in DerefsOf(paint)
         /\ Ran(Call("drawPath", mc, paint, UB(d, 0), [path |-> Path(<<0, 1>>, eo)]),
                drawPath(Running(UB(d, 0)), Path(<<0, 1>>, eo), mc, paint))

\* pts[] holds count points.
DrawPoints ==
    /\ Ready
    /\ \E mc \in FewMxCps, paint \in TwoPaints, d \in {"fault", "garbage"},
          mode \in PointModes, count \in 0..MaxPts, oob \in 0..MaxOOB :
         /\ cs = <<mc.fClipStack>>
         /\ d \in DerefsOf(paint)
         /\ oob > 0 => mode = "lines" /\ count = 0
         /\ Ran(Call("drawPoints", mc, paint, UB(d, oob), [mode |-> mode, count |-> count]),
                drawPoints(Running(UB(d, oob)), mode, count, mc, paint))


DrawBitmap ==
    /\ Ready
    /\ \E mc \in FewMxCps, paint \in TwoPaints, d \in {"fault", "garbage"},
          bm \in Bitmaps, moved \in BOOLEAN :
         /\ cs = <<mc.fClipStack>>
         /\ d \in DerefsOf(paint)
         /\ Ran(Call("drawBitmap", mc, paint, UB(d, 0), [bm |-> bm, moved |-> moved]),
                drawBitmap(Running(UB(d, 0)), mc, bm, moved, paint))

DrawSprite ==
    /\ Ready
    /\ \E mc \in FewMxCps, paint \in TwoPaints, d \in {"fault", "garbage"},
          bm \in Bitmaps, moved \in BOOLEAN :
         /\ cs = <<mc.fClipStack>>
         /\ d \in DerefsOf(paint)
         /\ Ran(Call("drawSprite", mc, paint, UB(d, 0), [bm |-> bm, moved |-> moved]),
                drawSprite(Running(UB(d, 0)), mc, bm, moved, paint))

DrawBitmapRect ==
    /\ Ready
    /\ \E mc \in FewMxCps, paint \in TwoPaints, d \in {"fault", "garbage"},
          bm \in Bitmaps, src \in {"null", "full", "part"}, fit \in {0, kScale_Mask} :
         /\ mc.fClipStack = Top(cs)
         /\ d \in DerefsOf(paint)
         /\ Ran(Call("drawBitmapRect", mc, paint, UB(d, 0),
                     [bm |-> bm, src |-> src, dst |-> Rect(1, 1, 4, 4), fit |-> fit]),
                drawBitmapRect(Running(UB(d, 0)), mc, bm, src, Rect(1, 1, 4, 4), fit, paint))

DrawPosText ==
    /\ Ready
    /\ \E mc \in FewMxCps, paint \in TwoPaints, d \in {"fault", "garbage"},
          text \in Texts, scalarsPerPos \in {1, 2} :
         /\ cs = <<mc.fClipStack>>
         /\ d \in DerefsOf(paint)
         /\ Ran(Call("drawPosText", mc, paint, UB(d, 0),
                     [text |-> text, scalarsPerPos |-> scalarsPerPos]),
                drawPosText(Running(UB(d, 0)), text, scalarsPerPos, Point(3, 4), mc, paint))

\* The device's matrix and clip play no part in drawTextOnPath.
DrawTextOnPath ==
    /\ Ready
    /\ cs = <<WideOpen>>
    /\ \E paint \in TextPaints, text \in Texts, hasMatrix \in BOOLEAN, t \in CtmTypes :
         /\ ~hasMatrix => t = 0
         /\ Ran(Call("drawTextOnPath", MxCp(Matrix(0), WideOpen), paint, NoUB,
                     [text |-> text, hasMatrix |-> hasMatrix, matrix |-> Matrix(t)]),
                drawTextOnPath(Running(NoUB), text, Path(<<0, 1>>, FALSE),
                               hasMatrix, Matrix(t), paint))

\* bounds is the rect under the device's matrix and clip.
DrawAnnotation ==
    /\ Ready
    /\ \E mc \in FewMxCps : mc.fClipStack = Top(cs)
    /\ \E key \in {"url", "dest", "other"}, value \in {"null", "link"},
          bounds \in {Rect(0, 0, 2, 2), Rect(0, 0, 0, 2)} :
         Ran(Call("drawAnnotation", MxCp(Matrix(0), WideOpen),
                  FilledPaint(NoShader, NoFilter), NoUB,
                  [key |-> key, value |-> value, bounds |-> bounds]),
             drawAnnotation(Running(NoUB), key, value, bounds))

\* Between two draw calls the canvas saves, clips and restores: the device's
\* clip stack is any of ClipStacks when the next call begins.
SetClip ==
    /\ Ready
    /\ \E s \in ClipStacks : cs' = s
    /\ UNCHANGED <<dev, stack, log, bucket, pre, call, ncalls, tb>>

\* The call has returned to the caller, who has read what it wrote.
Return ==
    /\ dev \in {"live", "null"}
    /\ call # Idle
    /\ log' = <<>>
    /\ call' = Idle
    /\ pre' = bucket
    /\ UNCHANGED <<dev, stack, bucket, ncalls, cs, tb>>

Next ==
    \/ Create
    \/ Destroy
    \/ DrawPaint
    \/ DrawRect
    \/ DrawOval
    \/ DrawRRect
    \/ DrawPath
    \/ DrawPoints
    \/ DrawBitmap
    \/ DrawSprite
    \/ DrawBitmapRect
    \/ DrawPosText
    \/ DrawTextOnPath
    \/ DrawAnnotation
    \/ SetClip
    \/ Return

Spec == Init /\ [][Next]_vars


(***************************************************************************)
(* The constructor of SVGTextBuilder, one source character at a time.      *)
(***************************************************************************)
Chars == {" ", "\t", "a", "b", "&", "<", "NUL"}

InitText ==
    /\ dev = "none"
    /\ stack = <<>>
    /\ log = <<>>
    /\ bucket = ResourceBucket
    /\ pre = ResourceBucket
    /\ call = Idle
    /\ ncalls = 0
    /\ cs = <<WideOpen>>
    /\ \E scalarsPerPos \in 0..2 : tb = NewBuilder(Point(3, 4), scalarsPerPos)

\* One round of the loop over the text: this->appendUnichar(c).
TextAppend ==
    /\ ~tb.done
    /\ Len(tb.src) < MaxLen
    /\ \E c \in Chars : tb' = appendUnichar(tb, c)
    /\ UNCHANGED <<dev, stack, log, bucket, pre, call, ncalls, cs>>

\* The text is consumed: the constructor returns.
TextFinish ==
    /\ ~tb.done
    /\ tb' = finishBuilder(tb)
    /\ UNCHANGED <<dev, stack, log, bucket, pre, call, ncalls, cs>>

NextText == TextAppend \/ TextFinish

SpecText == InitText /\ [][NextText]_vars


(***************************************************************************)
(* Reading a call's log.                                                   *)
(***************************************************************************)
DrawOps ==
    {"drawPaint", "drawRect", "drawOval", "drawRRect", "drawPath", "drawPoints",
     "drawBitmap", "drawSprite", "drawBitmapRect", "drawPosText", "drawTextOnPath",
     "drawAnnotation"}

BitmapOps == {"drawBitmap", "drawSprite", "drawBitmapRect"}

IsStart(e) == e.t = "start"
IsEnd(e)   == e.t = "end"
IsStartOf(e, name) == e.t = "start" /\ e.name = name
IsAttr(e, name)    == e.t = "attr" /\ e.name = name

\* The indices of lg at which P holds.
Where(lg, P(_)) == {i \in 1..Len(lg) : P(lg[i])}

\* The name of the element started at index i; index 0 is the root <svg>,
\* open when the call begins.
NameAt(lg, i) == IF i = 0 THEN "svg" ELSE lg[i].name

\* Replaying a log: st holds the indices of the starts of the open elements,
\* pairs each start with the end that closed it, ok is whether every end so
\* far named the innermost open element, low is the least depth reached.
Replayed(ok, st, pairs, low) == [ok |-> ok, st |-> st, pairs |-> pairs, low |-> low]

ReplayStep(lg, k, r) ==
    IF IsStart(lg[k]) THEN Replayed(r.ok, Append(r.st, k), r.pairs, r.low)
    ELSE IF IsEnd(lg[k])
    THEN IF Len(r.st) = 0 THEN Replayed(FALSE, r.st, r.pairs, 0)
         ELSE Replayed(r.ok /\ NameAt(lg, r.st[Len(r.st)]) = lg[k].name,
                       SubSeq(r.st, 1, Len(r.st) - 1),
                       r.pairs \cup {<<r.st[Len(r.st)], k>>},
                       IF Len(r.st) - 1 < r.low THEN Len(r.st) - 1 ELSE r.low)
    ELSE r

\* The events lo..hi replayed from r, by halves; the replay stops at the
\* first end that does not name the innermost open element.
RECURSIVE ReplayFrom(_, _, _, _)
ReplayFrom(lg, lo, hi, r) ==
    IF lo > hi \/ ~r.ok THEN r
    ELSE IF lo = hi THEN ReplayStep(lg, lo, r)
    ELSE ReplayFrom(lg, (lo + hi) \div 2 + 1, hi,
                    ReplayFrom(lg, lo, (lo + hi) \div 2, r))

Replay(lg) == ReplayFrom(lg, 1, Len(lg), Replayed(TRUE, <<0>>, {}, 1))

\* C1: the start and end calls of every draw call are well nested: each end
\* closes the innermost open element; a call that returns has closed every
\* element it opened, and leaves the root <svg> as the only open element.
C1_WellNested ==
    call.op \in DrawOps =>
        LET r == Replay(log)
        IN  /\ r.ok
            /\ dev = "live" =>
                  /\ stack = <<"svg">>
                  /\ r.st = <<0>>
                  /\ \A i \in Where(log, IsStart) :
                        Cardinality({p \in r.pairs : p[1] = i}) = 1

\* A drawRect that returned after building two painted elements, each in its
\* clip group.
C1_Witness ==
    /\ call.op = "drawRect"
    /\ dev = "live"
    /\ Cardinality(Where(log, LAMBDA e : IsStartOf(e, "g"))) = 2
    /\ Cardinality(Where(log, LAMBDA e : IsStartOf(e, "svg"))) = 1


\* C2: the root <svg> is opened once, by the construction and after the
\* header; it is open during every draw call, none of which closes it; the
\* destruction closes it, and nothing else, and leaves no element open.
C2_RootLifetime ==
    /\ dev \in {"none", "null"} => stack = <<>>
    /\ (call.op = "Create" /\ dev = "live") =>
          /\ Len(log) >= 2 /\ log[1].t = "header" /\ IsStartOf(log[2], "svg")
          /\ Where(log, IsStart) = {2}
          /\ Where(log, IsEnd) = {}
    /\ dev \in {"live", "crashed"} => Len(stack) >= 1 /\ stack[1] = "svg"
    /\ dev = "live" => stack = <<"svg">>
    /\ call.op \in DrawOps =>
          /\ Replay(log).low >= 1
          /\ Where(log, LAMBDA e : e.t = "header") = {}
    /\ dev = "deleted" =>
          /\ call.op = "Destroy"
          /\ log = <<Ev("end", "svg", Empty, "")>>
          /\ stack = <<>>

\* A device destroyed after two draw calls.
C2_Witness == dev = "deleted" /\ ncalls = MaxCalls /\ bucket["clip"] > 0

\* The numbers of the ids of category c that a log hands out, in order.
IdNums(lg, c) ==
    LET ids == SelectSeq(lg, LAMBDA e : IsAttr(e, "id") /\ e.val.k = "id" /\ e.val.s = c)
    IN  [k \in 1..Len(ids) |-> ids[k].val.n]

\* C3: the ids a draw call hands out in a category are numbered from the
\* value the category's counter had when the call began, one after the other,
\* whatever the other categories do, and the counter ends at the next free
\* number; no counter of a live device ever goes down.
C3_IdsCount ==
    [][/\ (call = Idle /\ call'.op \in DrawOps) =>
             \A c \in Categories :
                /\ bucket'[c] >= bucket[c]
                /\ IdNums(log', c) = [k \in 1..(bucket'[c] - bucket[c]) |-> bucket[c] + k - 1]
       /\ dev = "live" => \A c \in Categories : bucket'[c] >= bucket[c]]_vars

\* The second draw call of a device hands out clip_1 after the first handed
\* out clip_0 and gradient_0.
C3_Witness ==
    /\ call.op = "drawPaint"
    /\ pre["clip"] = 1 /\ bucket["clip"] = 2
    /\ pre["gradient"] = 1 /\ bucket["gradient"] = 1
    /\ IdNums(log, "clip") = <<1>>


\* The clip a draw call builds its painted elements under.
EffClip(c) ==
    IF c.op = "drawBitmapRect" /\ c.arg.src = "part"
    THEN clipRect(c.mc.fClipStack, c.arg.dst)
    ELSE c.mc.fClipStack

HasClip(c)   == ~EffClip(c).open
HasShader(c) == c.paint.shader.kind # "none"
HasFilter(c) == c.paint.cf.kind = "srcin"

\* The draw calls that build painted elements.
PaintedOps == DrawOps \ {"drawTextOnPath", "drawAnnotation"}

\* The starts of the painted elements of a log.
Painted(lg) == Where(lg, LAMBDA e : IsStart(e) /\ e.ctor = "paint")

\* The <defs> that resource resolution opened: drawBitmapCommon's <defs>
\* holds an <image> first, the others a clipPath, a gradient, a pattern, or
\* nothing.
ResDefs(lg) ==
    {i \in Where(lg, LAMBDA e : IsStartOf(e, "defs")) :
        ~(i < Len(lg) /\ IsStartOf(lg[i + 1], "image"))}

\* C4 (as amended): resource resolution opens a <defs> if and only if the clip
\* is not wide open or the paint has a shader; a color filter alone opens none.
C4_DefsIffClipOrShader ==
    call.op \in PaintedOps =>
        /\ ResDefs(log) # {} => HasClip(call) \/ HasShader(call)
        /\ dev = "live" =>
              Cardinality(ResDefs(log)) =
                  IF HasClip(call) \/ HasShader(call)
                  THEN Cardinality(Painted(log)) ELSE 0

\* C4 (as claimed): a <defs> is opened if and only if the clip is not wide
\* open, the paint has a shader, or the paint has a source-in color filter.
C4_DefsIffAnyResource ==
    (call.op \in PaintedOps /\ dev = "live") =>
        Cardinality(ResDefs(log)) =
            IF HasClip(call) \/ HasShader(call) \/ HasFilter(call)
            THEN Cardinality(Painted(log)) ELSE 0

\* A paint with a source-in color filter and nothing else: the <filter> is
\* written, outside any <defs>.
C4_Witness ==
    /\ call.op = "drawPaint" /\ dev = "live"
    /\ HasFilter(call) /\ ~HasClip(call) /\ ~HasShader(call)
    /\ Where(log, LAMBDA e : IsStartOf(e, "filter")) # {}
    /\ ResDefs(log) = {}


\* The clip id most recently defined before event i of a log (-1: none).
LastClipId(lg, i) ==
    LET defs == {d \in 1..(i - 1) : IsAttr(lg[d], "id") /\ lg[d].val.s = "clip"}
    IN  IF defs = {} THEN -1
        ELSE lg[CHOOSE d \in defs : \A d2 \in defs : d2 <= d].val.n

\* C5: a painted element sits in a <g clip-path="url(#clip_n)"> if and only if
\* the clip is not wide open.  The <g> is opened right after the resource
\* definitions have been closed and right before the named tag; clip_n is the
\* clip just defined; the named tag's end is followed at once by the end of
\* the <g>, whose only child it is.
C5_ClipGroup ==
    call.op \in PaintedOps =>
        LET r == Replay(log)
            groups == Where(log, LAMBDA e : IsStartOf(e, "g"))
        IN  /\ groups # {} => HasClip(call)
            /\ \A g \in groups : g + 2 \in Painted(log)
            /\ \A i \in Painted(log) :
                 IF HasClip(call)
                 THEN /\ i >= 4
                      /\ IsStartOf(log[i - 2], "g")
                      /\ log[i - 2].ctor = "plain"
                      /\ IsAttr(log[i - 1], "clip-path")
                      /\ log[i - 1].val = Url(IdOf("clip", LastClipId(log, i)))
                      /\ IsEnd(log[i - 3])
                      /\ log[i - 3].name \in {"defs", "filter"}
                      /\ \E j \in Where(log, IsEnd) :
                            /\ <<i, j>> \in r.pairs
                            /\ <<i - 2, j + 1>> \in r.pairs
                 ELSE i >= 2 => ~IsAttr(log[i - 1], "clip-path")

\* A painted element under a clip, with a color filter defined between the
\* <defs> and the <g>.
C5_Witness ==
    /\ call.op = "drawPaint" /\ dev = "live"
    /\ HasClip(call) /\ HasFilter(call)
    /\ \E i \in Painted(log) : i >= 4 /\ IsEnd(log[i - 3]) /\ log[i - 3].name = "filter"

\* C7: Create with a null writer returns null and calls the writer not at
\* all; with a writer it returns a device, having written the header and
\* opened <svg> with xmlns, xmlns:xlink, width and height.
C7_Create ==
    call.op = "Create" =>
        IF call.writer = "null"
        THEN dev = "null" /\ log = <<>> /\ stack = <<>>
        ELSE /\ dev = "live"
             /\ stack = <<"svg">>
             /\ [k \in 1..Len(log) |-> <<log[k].t, log[k].name>>] =
                   << <<"header", "">>, <<"start", "svg">>, <<"attr", "xmlns">>,
                      <<"attr", "xmlns:xlink">>, <<"attr", "width">>, <<"attr", "height">> >>
             /\ log[5].val = Num(DeviceSize.fWidth)
             /\ log[6].val = Num(DeviceSize.fHeight)

\* Create was given a null writer.
C7_Witness == call.op = "Create" /\ call.writer = "null" /\ dev = "null" /\ log = <<>>


\* Whether AsDataUri gets no bytes for the paint's image shader: from
\* encodeToData(), or from the PNG re-encode of bytes neither PNG nor JPEG.
ShaderEncodeFails(paint) ==
    /\ paint.shader.kind = "image"
    /\ \/ paint.shader.image.first = "null"
       \/ paint.shader.image.first = "other" /\ paint.shader.image.second = "null"

\* Whether encode(bm) gets no bytes in a bitmap call.
BitmapEncodeFails(c) == c.op \in BitmapOps /\ c.arg.bm.png = "null"

\* The attribute values of a log that refer to an id of category c.
RefsTo(lg, c) ==
    Where(lg, LAMBDA e : e.t = "attr" /\ e.val.k \in {"url", "href"} /\ e.val.s = c)

\* C6: when an encode yields no bytes, the call returns without a fault,
\* writes no <image>, <use> or <pattern> that depends on the bytes, hands out
\* no image or pattern id for them, and writes no reference to such an id; a
\* fill with the image shader is the paint's color.  (drawPoints with no
\* point is left to C10.)
C6_EncodeFailure ==
    /\ BitmapEncodeFails(call) =>
          dev = "live" /\ log = <<>> /\ bucket = pre
    /\ (/\ call.op \in PaintedOps
        /\ ShaderEncodeFails(call.paint)
        /\ ~(call.op = "drawPoints" /\ call.arg.count = 0)) =>
          /\ dev = "live"
          /\ Where(log, LAMBDA e : IsStartOf(e, "pattern")) = {}
          /\ bucket["pattern"] = pre["pattern"]
          /\ RefsTo(log, "pattern") = {}
          /\ \A i \in Where(log, LAMBDA e : IsAttr(e, "fill")) :
                log[i].val = svg_color(call.paint.color)

\* C10: drawPoints in lines mode with n points returns having written
\* floor(n/2) paths, the i-th from points 2i and 2i+1, and has read no point at
\* an index >= n.  (Paints whose image shader faults are left to C6.)
C10_LinesPaths ==
    (/\ call.op = "drawPoints"
     /\ call.arg.mode = "lines"
     /\ ~ShaderEncodeFails(call.paint)) =>
        LET paths == SelectSeq(log, LAMBDA e : IsAttr(e, "d"))
        IN  /\ dev = "live"
            /\ Len(paths) = call.arg.count \div 2
            /\ \A k \in 1..Len(paths) : paths[k].val.p = <<2 * (k - 1), 2 * (k - 1) + 1>>
            /\ \A k \in 1..Len(paths) : \A q \in 1..Len(paths[k].val.p) :
                  paths[k].val.p[q] < call.arg.count


IsSpace(c) == c = " " \/ c = "\t"

\* C8: the text a finished builder holds starts with no space or tab, ends
\* with none, and holds no two of them side by side.
C8_Stripped ==
    tb.done =>
        LET t == tb.fText
        IN  /\ t # <<>> => ~IsSpace(t[1]) /\ ~IsSpace(t[Len(t)])
            /\ \A k \in 1..(Len(t) - 1) : ~(IsSpace(t[k]) /\ IsSpace(t[k + 1]))

\* C9: appendUnichar of a space or a tab drops the character and its position
\* entry when the last character was whitespace, and otherwise appends one
\* U+0020 to the text, and the character's position entry to the positions.
C9_OneSpace ==
    [][(/\ Len(tb'.src) = Len(tb.src) + 1
        /\ IsSpace(tb'.src[Len(tb'.src)])) =>
          IF tb.fLastCharWasWhitespace
          THEN /\ tb'.fText = tb.fText
               /\ tb'.fPosX = tb.fPosX
               /\ tb'.fPosY = tb.fPosY
          ELSE /\ tb'.fText = tb.fText \o <<" ">>
               /\ tb.fScalarsPerPos > 0 => Len(tb'.fPosX) = Len(tb.fPosX) + 1
               /\ tb.fScalarsPerPos > 1 => Len(tb'.fPosY) = Len(tb.fPosY) + 1]_vars

(***************************************************************************)
(* One painted element on a device just created: the attributes that       *)
(* addPaint, svg_transform, addRectAttributes and the resource definitions *)
(* write, over every style, alpha, stroke width, matrix type, tile mode     *)
(* and clip.                                                               *)
(***************************************************************************)
\* Every SkMatrix type mask: the bits translate, scale, affine, perspective.
TypeMasks == 0..(2 * kPerspective_Mask - 1)

Styles == {"fill", "stroke", "strokeAndFill"}

Alphas == {0, 128, SK_AlphaOPAQUE}

StrokeWidths == {0, 3}

StyledPaints ==
    {Paint(st, Color(a, 7), sw, "butt", "miter", NoShader, NoFilter, "left", PlainFace) :
        st \in Styles, a \in Alphas, sw \in StrokeWidths}

AllTileModes == TileModes \cup {"mirror"}

TiledPaints ==
    {Paint(st, Color(SK_AlphaOPAQUE, 7), 0, "butt", "miter",
           ImageShader(im, tx, ty), NoFilter, "left", PlainFace) :
        st \in Styles, im \in Images, tx \in AllTileModes, ty \in AllTileModes}

\* Fill paints with every shader and every color filter.
ResourcePaints ==
    {Paint("fill", Color(SK_AlphaOPAQUE, 7), 0, "butt", "miter", sh, cf, "left", PlainFace) :
        sh \in Shaders, cf \in ColorFilters}

ElemRects == {Rect(x, y, w, h) : x \in {0, 5}, y \in {0, 5}, w \in {0, 10}, h \in {0, 20}}

\* The device as SkSVGDevice::Create with a writer leaves it, once the caller
\* has read the header and the root.
InitElem ==
    /\ dev = "live"
    /\ stack = <<"svg">>
    /\ log = <<>>
    /\ bucket = ResourceBucket
    /\ pre = ResourceBucket
    /\ call = Idle
    /\ ncalls = 0
    /\ cs \in ClipStacks
    /\ tb = NoBuilder

\* drawRect under a matrix of every type, with a paint of every style.
ElemDrawRect ==
    /\ dev = "live" /\ call = Idle /\ ncalls = 0
    /\ Top(cs) = WideOpen
    /\ \E t \in TypeMasks, paint \in StyledPaints, r \in ElemRects :
         Ran(Call("drawRect", MxCp(Matrix(t), WideOpen), paint, NoUB, [r |-> r]),
             drawRect(Running(NoUB), r, MxCp(Matrix(t), WideOpen), paint))

\* drawRect under every clip, with every shader and color filter.
ElemDrawRectClipped ==
    /\ dev = "live" /\ call = Idle /\ ncalls = 0
    /\ \E cl \in Clips, paint \in ResourcePaints, d \in {"fault", "garbage"} :
         /\ cl = Top(cs)
         /\ d \in DerefsOf(paint)
         /\ Ran(Call("drawRect", MxCp(Matrix(0), cl), paint, UB(d, 0),
                     [r |-> Rect(5, 0, 10, 20)]),
                drawRect(Running(UB(d, 0)), Rect(5, 0, 10, 20), MxCp(Matrix(0), cl), paint))

\* drawPaint under every clip, with an image shader of every tiling, and with
\* every shader and color filter.
ElemDrawPaint ==
    /\ dev = "live" /\ call = Idle /\ ncalls = 0
    /\ \E cl \in Clips, paint \in TiledPaints \cup ResourcePaints, d \in {"fault", "garbage"} :
         /\ cl = Top(cs)
         /\ d \in DerefsOf(paint)
         /\ Ran(Call("drawPaint", MxCp(Matrix(0), cl), paint, UB(d, 0), <<>>),
                drawPaint(Running(UB(d, 0)), MxCp(Matrix(0), cl), paint))

\* The weights of a typeface: SkFontStyle keeps them in 0..1000.
Weights == {50 * k : k \in 0..20} \cup {349, 449, 699, 701}

Slants == {"upright", "italic", "oblique"}

\* The paints of a text: a typeface of every weight, slant and width.
FacePaints ==
    {Paint("fill", Color(SK_AlphaOPAQUE, 7), 0, "butt", "miter", NoShader, NoFilter, "left",
           Typeface(sl, wt, wd, <<1, 1, 2>>)) :
       sl \in Slants, wt \in Weights, wd \in {1, 5, 9}}

\* drawPosText with a typeface of every weight.
ElemDrawPosText ==
    /\ dev = "live" /\ call = Idle /\ ncalls = 0
    /\ cs = <<WideOpen>>
    /\ \E paint \in FacePaints, text \in Texts :
         Ran(Call("drawPosText", MxCp(Matrix(0), WideOpen), paint, NoUB,
                  [text |-> text, scalarsPerPos |-> 2]),
             drawPosText(Running(NoUB), text, 2, Point(3, 4), MxCp(Matrix(0), WideOpen), paint))

NextElem == ElemDrawRect \/ ElemDrawRectClipped \/ ElemDrawPaint \/ ElemDrawPosText

SpecElem == InitElem /\ [][NextElem]_vars

\* The values of the attributes called name that a log holds, in order.
AttrVals(lg, name) ==
    LET as == SelectSeq(lg, LAMBDA e : IsAttr(e, name))
    IN  [k \in 1..Len(as) |-> as[k].val]

\* C11: under a matrix whose type has the perspective bit, the transform
\* attribute names no translate, scale or matrix function; a type of exactly
\* translate gives translate(tx ty), exactly scale gives scale(sx sy), every
\* other type without the perspective bit the six-parameter matrix(...).
C11_Transform ==
    (call.op = "drawRect" /\ ~isIdentity(call.mc.fMatrix)) =>
        LET t == call.mc.fMatrix.type
            xf == AttrVals(log, "transform")
        IN  IF Bit(t, kPerspective_Mask) = 1
            THEN \A k \in 1..Len(xf) : xf[k] = Empty
            ELSE xf = << CASE t = kTranslate_Mask -> Val("xform", "translate", 2, <<>>)
                           [] t = kScale_Mask     -> Val("xform", "scale", 2, <<>>)
                           [] OTHER               -> Val("xform", "matrix", 6, <<>>) >>

\* (A drawRect that resets the viewport builds two painted elements; C12 and
\* C13 read the calls that build one.)
\* C12: an opaque paint (alpha 255) writes no fill-opacity and no
\* stroke-opacity; any other alpha writes fill-opacity exactly when the style
\* fills and stroke-opacity exactly when it strokes, each with the value
\* alpha/255; the side that is not drawn is "none" and has no opacity.
C12_Opacity ==
    (/\ call.op \in {"drawRect", "drawPaint"} /\ dev = "live"
     /\ ~(call.op = "drawRect" /\ RequiresViewportReset(call.paint))) =>
        LET paint == call.paint
            a == paint.color.a
            opacity == Val("over255", "", a, <<>>)
        IN  /\ AttrVals(log, "fill-opacity") =
                  IF a # 255 /\ paint.style \in {"fill", "strokeAndFill"}
                  THEN <<opacity>> ELSE <<>>
            /\ AttrVals(log, "stroke-opacity") =
                  IF a # 255 /\ paint.style \in {"stroke", "strokeAndFill"}
                  THEN <<opacity>> ELSE <<>>
            /\ Len(AttrVals(log, "fill")) = 1
            /\ Len(AttrVals(log, "stroke")) = 1
            /\ paint.style = "stroke" <=> AttrVals(log, "fill") = <<Str("none")>>
            /\ paint.style = "fill" <=> AttrVals(log, "stroke") = <<Str("none")>>

\* A half-transparent stroke-and-fill paint: both opacities are written; and
\* the rect of a half-transparent stroke has only the stroke's.
C12_Witness ==
    /\ call.op = "drawRect" /\ dev = "live"
    /\ call.paint.color.a = 128
    /\ \/ /\ call.paint.style = "strokeAndFill"
          /\ AttrVals(log, "fill-opacity") = <<Val("over255", "", 128, <<>>)>>
          /\ AttrVals(log, "stroke-opacity") = <<Val("over255", "", 128, <<>>)>>
       \/ /\ call.paint.style = "stroke"
          /\ AttrVals(log, "fill-opacity") = <<>>
          /\ AttrVals(log, "stroke-opacity") = <<Val("over255", "", 128, <<>>)>>

\* C13: a paint that strokes with width 0 writes stroke-width 1 and
\* vector-effect non-scaling-stroke; with another width it writes that width
\* and no vector-effect; a paint that only fills writes neither attribute.
C13_Hairline ==
    (/\ call.op \in {"drawRect", "drawPaint"} /\ dev = "live"
     /\ ~(call.op = "drawRect" /\ RequiresViewportReset(call.paint))) =>
        LET paint == call.paint
        IN  IF paint.style \in {"stroke", "strokeAndFill"}
            THEN IF paint.strokeWidth = 0
                 THEN /\ AttrVals(log, "stroke-width") = <<Num(1)>>
                      /\ AttrVals(log, "vector-effect") = <<Str("non-scaling-stroke")>>
                 ELSE /\ AttrVals(log, "stroke-width") = <<Num(paint.strokeWidth)>>
                      /\ AttrVals(log, "vector-effect") = <<>>
            ELSE /\ AttrVals(log, "stroke-width") = <<>>
                 /\ AttrVals(log, "vector-effect") = <<>>

\* A hairline stroke: stroke-width 1 with the vector effect.
C13_Witness ==
    /\ call.op = "drawRect" /\ dev = "live"
    /\ call.paint.style = "stroke" /\ call.paint.strokeWidth = 0
    /\ AttrVals(log, "stroke-width") = <<Num(1)>>
    /\ AttrVals(log, "vector-effect") # <<>>

\* What a drawPaint under a clip that is not wide open writes for the clip:
\* one <clipPath id=clip_n> with one child, a <rect> when the clip path is
\* empty or a rect and a <path> otherwise; the <path> has the attribute
\* ruleAttr, "evenodd" for an even-odd clip path and "nonzero" otherwise;
\* the clip-path reference is url(#clip_n).
ClipDefined(ruleAttr) ==
    LET clip == call.mc.fClipStack
        r == Replay(log)
        cps == Where(log, LAMBDA e : IsStartOf(e, "clipPath"))
    IN  /\ Cardinality(cps) = 1
        /\ \A i \in cps : \E j \in (i + 1)..Len(log) :
              /\ <<i, j>> \in r.pairs
              /\ IsAttr(log[i + 1], "id") /\ log[i + 1].val.k = "id" /\ log[i + 1].val.s = "clip"
              /\ AttrVals(log, "clip-path") = <<Url(log[i + 1].val)>>
              /\ LET kids == {k \in (i + 1)..(j - 1) : IsStart(log[k])}
                 IN  /\ Cardinality(kids) = 1
                     /\ \A k \in kids :
                          /\ log[k].name = IF clip.shape \in {"empty", "rect"}
                                           THEN "rect" ELSE "path"
                          /\ log[k].name = "path" =>
                               {log[a].val : a \in {a \in k..j : IsAttr(log[a], ruleAttr)}}
                                  = {Str(IF clip.evenodd THEN "evenodd" ELSE "nonzero")}

\* C14 (as amended): the child of the <clipPath> carries the clip path's
\* fill type in a clip-rule attribute, evenodd or nonzero.
C14_ClipRule ==
    (call.op = "drawPaint" /\ dev = "live" /\ ~call.mc.fClipStack.open) =>
        ClipDefined("clip-rule")

\* C14 (as claimed): the <path> child of the <clipPath> carries the clip
\* path's fill type in a fill-rule attribute.
C14_FillRule ==
    (call.op = "drawPaint" /\ dev = "live" /\ ~call.mc.fClipStack.open) =>
        ClipDefined("fill-rule")

\* An even-odd clip path that is not a rect: a <path> child with
\* clip-rule="evenodd".
C14_Witness ==
    /\ call.op = "drawPaint" /\ dev = "live"
    /\ call.mc.fClipStack.shape = "path" /\ call.mc.fClipStack.evenodd
    /\ AttrVals(log, "clip-rule") = <<Str("evenodd")>>
    /\ AttrVals(log, "fill-rule") = <<>>
    /\ Where(log, LAMBDA e : IsStartOf(e, "clipPath")) # {}

\* C15: for an image shader whose image encodes, the <pattern> has the
\* image's width as its width when the x tile mode is repeat and "100%" for
\* any other mode, and likewise its height from the y tile mode; the paint
\* server of the element is url(#pattern_n) of that pattern.
C15_PatternDims ==
    (/\ call.op = "drawPaint" /\ dev = "live"
     /\ call.paint.shader.kind = "image"
     /\ \/ call.paint.shader.image.first \in {"jpeg", "png"}
        \/ call.paint.shader.image.first = "other" /\ call.paint.shader.image.second = "png") =>
        LET shader == call.paint.shader
            pats == Where(log, LAMBDA e : IsStartOf(e, "pattern"))
            dim(mode, size) == IF mode = "repeat" THEN Num(size) ELSE Str("100%")
            server(name) == {log[a].val : a \in Where(log, LAMBDA e : IsAttr(e, name))}
        IN  /\ Cardinality(pats) = 1
            /\ \A i \in pats : \E m \in (i + 1)..Len(log) :
                  /\ IsStartOf(log[m], "image")
                  /\ \A k \in (i + 1)..(m - 1) : IsAttr(log[k], log[k].name)
                  /\ LET head == SubSeq(log, i + 1, m - 1)
                     IN  /\ AttrVals(head, "width") = <<dim(shader.xy[1], shader.image.w)>>
                         /\ AttrVals(head, "height") = <<dim(shader.xy[2], shader.image.h)>>
                         /\ AttrVals(head, "id") = <<IdOf("pattern", pre["pattern"])>>
            /\ call.paint.style \in {"fill", "strokeAndFill"} =>
                  server("fill") = {Url(IdOf("pattern", pre["pattern"]))}
            /\ call.paint.style \in {"stroke", "strokeAndFill"} =>
                  server("stroke") = {Url(IdOf("pattern", pre["pattern"]))}

\* A pattern that repeats along x and mirrors along y.
C15_Witness ==
    /\ call.op = "drawPaint" /\ dev = "live"
    /\ call.paint.shader.kind = "image"
    /\ call.paint.shader.xy = <<"repeat", "mirror">>
    /\ call.paint.shader.image.first = "png"
    /\ \E i \in Where(log, LAMBDA e : IsStartOf(e, "pattern")) :
          /\ log[i + 4] = Ev("attr", "width", Num(call.paint.shader.image.w), "")
          /\ log[i + 5] = Ev("attr", "height", Str("100%"), "")

\* C16: addRectAttributes writes x if and only if the rect's x is not 0, y if
\* and only if its y is not 0, and width and height always, also when they
\* are 0.  (Read from the <rect> of a drawRect whose paint needs no resource
\* definition: the only element the call writes.)
C16_RectAttributes ==
    (/\ call.op = "drawRect" /\ dev = "live"
     /\ ~HasClip(call) /\ ~HasShader(call) /\ ~HasFilter(call)) =>
        LET r == call.arg.r
        IN  /\ AttrVals(log, "x") = IF r.x # 0 THEN <<Num(r.x)>> ELSE <<>>
            /\ AttrVals(log, "y") = IF r.y # 0 THEN <<Num(r.y)>> ELSE <<>>
            /\ AttrVals(log, "width") = <<Num(r.w)>>
            /\ AttrVals(log, "height") = <<Num(r.h)>>

\* x=5, y=0, and a width of 0: x, width and height are written, y is not.
C16_Witness ==
    /\ call.op = "drawRect" /\ dev = "live"
    /\ call.arg.r = Rect(5, 0, 0, 20)
    /\ AttrVals(log, "x") = <<Num(5)>>
    /\ AttrVals(log, "y") = <<>>
    /\ AttrVals(log, "width") = <<Num(0)>>

\* The <defs> that are open when event k of a log is written.
DefsAround(lg, k) ==
    LET r == Replay(lg)
    IN  {d \in 1..(k - 1) :
            /\ IsStartOf(lg[d], "defs")
            /\ ~\E j \in (d + 1)..(k - 1) : <<d, j>> \in r.pairs}

\* The starts of the definitions of the given tags in a log.
DefsOf(lg, tags) == Where(lg, LAMBDA e : IsStart(e) /\ e.name \in tags)

\* Whether events a and b of a log belong to the resolution of one painted
\* element: no painted element starts between them.
SameResolution(lg, a, b) ==
    ~\E p \in Painted(lg) : (a < p /\ p < b) \/ (b < p /\ p < a)

RECURSIVE WsAfter(_, _)
WsAfter(src, i) ==
    IF i = 0 THEN TRUE
    ELSE IF IsSpace(src[i]) THEN TRUE
    ELSE IF src[i] = "NUL" THEN WsAfter(src, i - 1)
    ELSE FALSE

\* The indices of the characters of src that the text keeps.
KeptIdx(src) ==
    {i \in 1..Len(src) :
        /\ src[i] # "NUL"
        /\ ~(IsSpace(src[i]) /\ WsAfter(src, i - 1))}

\* The n-th smallest member of a set of numbers.
Nth(S, n) == CHOOSE i \in S : Cardinality({j \in S : j < i}) = n - 1

\* C18: with 1 or 2 scalars per position the x positions have one entry for
\* each character the text keeps, the entry of the character's own source
\* position plus offset.x; the cursor has moved by scalars-per-position for
\* every source character, kept or not; a \0 leaves the whitespace flag as it
\* was.  With 2 scalars the y positions have the same entries from the second
\* scalar; with fewer the y positions are the one value offset.y once the
\* builder is built, and with 0 scalars the x positions are the one value
\* offset.x.
C18_Positions ==
    (tb # NoBuilder) =>
        LET spp == tb.fScalarsPerPos
            kept == KeptIdx(tb.src)
            n == Cardinality(kept)
        IN  /\ tb.fPos = spp * Len(tb.src)
            /\ tb.fLastCharWasWhitespace = WsAfter(tb.src, Len(tb.src))
            /\ spp >= 1 =>
                  tb.fPosX = [k \in 1..n |-> tb.fOffset.x + PosAt(spp * (Nth(kept, k) - 1))]
            /\ spp = 2 =>
                  tb.fPosY = [k \in 1..n |-> tb.fOffset.y + PosAt(spp * (Nth(kept, k) - 1) + 1)]
            /\ spp < 2 => tb.fPosY = IF tb.done THEN <<tb.fOffset.y>> ELSE <<>>
            /\ spp = 0 => tb.fPosX = IF tb.done THEN <<tb.fOffset.x>> ELSE <<>>

\* A built text of four characters with a \0 and a discarded space in it: the
\* last entry is the fourth character's position.
C18_Witness ==
    /\ tb.done /\ tb.fScalarsPerPos = 2
    /\ Len(tb.src) = 4
    /\ tb.src[2] = "NUL" /\ tb.src[3] = " " /\ tb.src[1] = " " /\ tb.src[4] = "&"
    /\ tb.fPosX = <<tb.fOffset.x + PosAt(6)>>
    /\ tb.fPosY = <<tb.fOffset.y + PosAt(7)>>

\* C19: a draw call that returns leaves the device's clip stack as it found
\* it, level by level: drawAnnotation has restored what it saved, also when
\* the bounds are empty, and drawBitmapRect has dropped the level it saved for
\* a partial source rect, also when the bitmap cannot be encoded.  A
\* drawAnnotation with a null value, with a key that is neither the URL key
\* nor the named-destination key, or with empty bounds writes nothing.
C19_ClipStackKept ==
    [][(call = Idle /\ call'.op \in DrawOps /\ dev' = "live") =>
          /\ cs' = cs
          /\ (/\ call'.op = "drawAnnotation"
              /\ \/ call'.arg.value = "null"
                 \/ call'.arg.key \notin {"url", "dest"}
                 \/ call'.arg.bounds.w = 0
                 \/ call'.arg.bounds.h = 0) => log' = <<>>]_vars

\* A drawBitmapRect of a part of a bitmap under a wide-open clip: the <use>
\* was written under the clip of the rect, in a level that is gone when the
\* call returns.
C19_Witness ==
    /\ call.op = "drawBitmapRect" /\ dev = "live"
    /\ call.arg.src = "part" /\ call.arg.bm.png = "png"
    /\ cs = <<WideOpen>>
    /\ Where(log, LAMBDA e : IsStartOf(e, "clipPath")) # {}
    /\ Where(log, LAMBDA e : IsStartOf(e, "use")) # {}

\* The attributes of a log whose value refers to an id: url(#id) and #id.
Refs(lg) == Where(lg, LAMBDA e : e.t = "attr" /\ e.val.k \in {"url", "href"})

\* The id attributes of a log that define the id the value v refers to.
DefsOfRef(lg, v) ==
    Where(lg, LAMBDA e : IsAttr(e, "id") /\ e.val.k = "id"
                         /\ e.val.s = v.s /\ e.val.n = v.n)

\* C20: every reference to an id that a draw call writes, url(#id) in fill,
\* stroke, clip-path and filter and #id in xlink:href, names an id that the
\* document defines exactly once, earlier than the reference: the call itself
\* defined it, and no earlier call did.  A shader of a kind that is not
\* supported leaves the paint's color as the fill.
C20_RefsDefined ==
    call.op \in DrawOps =>
        /\ \A i \in Refs(log) :
              /\ Cardinality(DefsOfRef(log, log[i].val)) = 1
              /\ \A d \in DefsOfRef(log, log[i].val) : d < i
              /\ log[i].val.n >= pre[log[i].val.s]
              /\ log[i].val.n < bucket[log[i].val.s]
              /\ log[i].name \in (IF log[i].val.k = "url"
                                  THEN {"fill", "stroke", "clip-path", "filter"}
                                  ELSE {"xlink:href"})
        /\ (call.op \in PaintedOps /\ call.paint.shader.kind \in {"radial", "other"}) =>
              \A i \in Where(log, LAMBDA e : IsAttr(e, "fill") \/ IsAttr(e, "stroke")) :
                  log[i].val \in {Val("rgb", "", call.paint.color.rgb, <<>>), Str("none")}

\* The second call of a device, a drawBitmap under a clip: its <use> refers to
\* img_n and its <g> to clip_n, both past the ids of the first call.
C20_Witness ==
    /\ call.op = "drawBitmap" /\ dev = "live" /\ ncalls = 2
    /\ pre["img"] >= 1 /\ pre["clip"] >= 1
    /\ \E i \in Refs(log) : log[i].val.k = "href" /\ log[i].val.n = pre["img"]
    /\ \E i \in Refs(log) : log[i].name = "clip-path" /\ log[i].val.n = pre["clip"]

(***************************************************************************)
(* drawRect and the viewport reset.                                        *)
(***************************************************************************)
\* The values of the attributes called name written on the element started
\* at event i of a log: the ones before the next start or end.
OwnAttrVals(lg, i, name) ==
    LET stop == {j \in (i + 1)..Len(lg) : IsStart(lg[j]) \/ IsEnd(lg[j])}
        last == IF stop = {} THEN Len(lg)
                ELSE (CHOOSE j \in stop : \A k \in stop : j <= k) - 1
    IN  AttrVals(SubSeq(lg, i + 1, last), name)

\* The <g> wrappers of a log that carry a clip-path attribute.
ClipGroups(lg) ==
    {i \in Where(lg, LAMBDA e : IsStartOf(e, "g")) : OwnAttrVals(lg, i, "clip-path") # <<>>}

\* C21: a drawRect call that returns has allocated at most one clip id and at
\* most one pattern id and has written at most one <defs> and at most one
\* clip-path <g>, also when the paint requires the viewport reset; then the
\* <rect> lies inside the extra <svg>, has x=0, y=0, width=height="100%", and
\* the <svg> carries the rect's x (y) where it is not 0 and its width and
\* height.
C21_ResolvedOnce ==
    (call.op = "drawRect" /\ dev = "live") =>
        /\ bucket["clip"] - pre["clip"] <= 1
        /\ bucket["pattern"] - pre["pattern"] <= 1
        /\ Cardinality(Where(log, LAMBDA e : IsStartOf(e, "defs"))) <= 1
        /\ Cardinality(ClipGroups(log)) <= 1
        /\ RequiresViewportReset(call.paint) =>
              \E s \in Where(log, LAMBDA e : IsStartOf(e, "svg")),
                 q \in Where(log, LAMBDA e : IsStartOf(e, "rect")) :
                 LET r == call.arg.r
                 IN  /\ \E p \in Replay(log).pairs : p[1] = s /\ s < q /\ q < p[2]
                     /\ OwnAttrVals(log, q, "x") = <<Num(0)>>
                     /\ OwnAttrVals(log, q, "y") = <<Num(0)>>
                     /\ OwnAttrVals(log, q, "width") = <<Str("100%")>>
                     /\ OwnAttrVals(log, q, "height") = <<Str("100%")>>
                     /\ OwnAttrVals(log, s, "x") = IF r.x # 0 THEN <<Num(r.x)>> ELSE <<>>
                     /\ OwnAttrVals(log, s, "y") = IF r.y # 0 THEN <<Num(r.y)>> ELSE <<>>
                     /\ OwnAttrVals(log, s, "width") = <<Num(r.w)>>
                     /\ OwnAttrVals(log, s, "height") = <<Num(r.h)>>

(***************************************************************************)
(* The font-weight attribute.                                              *)
(***************************************************************************)
\* The numeral of a weight that is a multiple of 100 in 100..900.
Numeral(n) == <<"100", "200", "300", "400", "500", "600", "700", "800", "900">>[n \div 100]

\* C22: for every typeface weight w, with w' = w pinned to 100..900: the
\* index stays inside weights[]; no font-weight is written exactly when w'
\* falls on the "normal" entry (350..449, which holds 400); and for every
\* other w' that is a multiple of 100 the font-weight written denotes w': its
\* numeral, or "bold" for 700.
C22_FontWeight ==
    (call.op = "drawPosText" /\ dev = "live") =>
        LET weight == call.paint.typeface.weight
            pinned == SkTPin(weight, 100, 900)
            written == AttrVals(log, "font-weight")
        IN  /\ weightIndex(weight) \in 0..(Len(weights) - 1)
            /\ written = <<>> <=> pinned \in 350..449
            /\ (pinned % 100 = 0 /\ pinned # 400) =>
                  \/ written = <<Str(Numeral(pinned))>>
                  \/ pinned = 700 /\ written = <<Str("bold")>>

====
